---- MODULE Spec2Model ----
(***************************************************************************)
(* Account REST service (service/routes.py): the five /accounts handlers   *)
(* over the Account table.  A state is the table of committed rows, the    *)
(* primary-key sequence, the wall-clock date, and the last request and     *)
(* its response.  service/models.py and service/common/error_handlers.py   *)
(* are not part of the sources at hand; the Account entity (deserialize,   *)
(* serialize, create, update, delete, find, all) and the error bodies are  *)
(* modelled from the written specification of the service.                 *)
(***************************************************************************)
EXTENDS Integers, Sequences, FiniteSets, TLC

(* ---------------------------- bounds ----------------------------------- *)
\* largest primary key the sequence hands out (caps the number of creates)
MaxId == 2

(* ------------------------- HTTP status codes --------------------------- *)
HTTP_200_OK == 200
HTTP_201_CREATED == 201
HTTP_204_NO_CONTENT == 204
HTTP_400_BAD_REQUEST == 400
HTTP_404_NOT_FOUND == 404
HTTP_415_UNSUPPORTED_MEDIA_TYPE == 415
HTTP_500_INTERNAL_SERVER_ERROR == 500

(* ----------------------------- values ---------------------------------- *)
\* Python's None for an attribute of a freshly constructed Account()
None == "None"
\* Account().id before the row exists
NoId == -1

D1 == [year |-> 2024, month |-> 1, day |-> 5]
D2 == [year |-> 2024, month |-> 12, day |-> 31]
Dates == {D1, D2}

\* date.isoformat(): the date rendered as the text YYYY-MM-DD
isoformat(d) == <<d.year, d.month, d.day>>
\* date.fromisoformat(): the text parsed back into a date
fromisoformat(s) == [year |-> s[1], month |-> s[2], day |-> s[3]]

RequiredKeys == {"name", "email", "address", "phone_number"}
InputKeys == RequiredKeys \cup {"date_joined"}

\* the two complete representations clients submit (they differ in every field)
Templates ==
  { [name |-> "Joe", email |-> "joe@x.com", address |-> "1 Main",
     phone_number |-> "555-1212", date_joined |-> isoformat(D1)],
    [name |-> "Ann", email |-> "ann@y.org", address |-> "2 High",
     phone_number |-> "555-3434", date_joined |-> isoformat(D2)] }

\* ids a client may put in a path; 0 is never assigned
PathIds == 0..MaxId
\* ids a client may embed in a body
BodyIds == 1..MaxId

MakeBody(t, K, withId, id) ==
  [k \in (K \cup (IF withId THEN {"id"} ELSE {})) |->
      IF k = "id" THEN id ELSE t[k]]

\* the key sets of the JSON objects clients send: every input key, one
\* input key left out, and the name alone
KeySets ==
  {InputKeys} \cup {InputKeys \ {k} : k \in InputKeys} \cup {{"name"}}

\* JSON objects a client sends: a template restricted to one of the key
\* sets, or a complete template with an id embedded
Bodies ==
  { MakeBody(t, K, FALSE, 0) : t \in Templates, K \in KeySets }
  \cup
  { MakeBody(t, InputKeys, TRUE, id) : t \in Templates, id \in BodyIds }

\* Content-Type header of a request: absent, JSON, or something else
ContentTypes == {None, "application/json", "test/html"}

(* ------------------------------ state ---------------------------------- *)
VARIABLES accounts, next_id, today, request, response, n_created, n_deleted

vars == <<accounts, next_id, today, request, response, n_created, n_deleted>>

(* ------------------------- Account entity ------------------------------ *)
\* Account(): a fresh in-memory entity
Account == [id |-> NoId, name |-> None, email |-> None, address |-> None,
            phone_number |-> None, date_joined |-> D1]

\* deserialize(data): assigns the fields in order; a missing required key
\* raises the validation error with the fields before it already assigned
deserialize(account, data, now) ==
  IF "name" \notin DOMAIN data
  THEN [ok |-> FALSE, missing |-> "name", account |-> account]
  ELSE LET a1 == [account EXCEPT !.name = data["name"]] IN
  IF "email" \notin DOMAIN data
  THEN [ok |-> FALSE, missing |-> "email", account |-> a1]
  ELSE LET a2 == [a1 EXCEPT !.email = data["email"]] IN
  IF "address" \notin DOMAIN data
  THEN [ok |-> FALSE, missing |-> "address", account |-> a2]
  ELSE LET a3 == [a2 EXCEPT !.address = data["address"]] IN
  IF "phone_number" \notin DOMAIN data
  THEN [ok |-> FALSE, missing |-> "phone_number", account |-> a3]
  ELSE LET a4 == [a3 EXCEPT !.phone_number = data["phone_number"]]
           a5 == [a4 EXCEPT !.date_joined =
                     IF "date_joined" \in DOMAIN data
                     THEN fromisoformat(data["date_joined"])
                     ELSE now]
           a6 == IF "id" \in DOMAIN data
                 THEN [a5 EXCEPT !.id = data["id"]]
                 ELSE a5
       IN [ok |-> TRUE, missing |-> None, account |-> a6]

\* serialize(): every field, date_joined as ISO text
serialize(account) ==
  [id |-> account.id, name |-> account.name, email |-> account.email,
   address |-> account.address, phone_number |-> account.phone_number,
   date_joined |-> isoformat(account.date_joined)]

\* Account.find(id): is there a row with this key
exists(tbl, account_id) == \E i \in 1..Len(tbl) : tbl[i].id = account_id

\* Account.find(id): the row with this key (the first one the query meets)
find(tbl, account_id) ==
  tbl[CHOOSE i \in 1..Len(tbl) :
        /\ tbl[i].id = account_id
        /\ \A j \in 1..(i - 1) : tbl[j].id # account_id]

\* Account.all(): every row, in insertion order
all(tbl) == tbl

\* create(): the store assigns the next key of the sequence, whatever id the
\* entity carried, and the row is committed
create(tbl, seq, account) ==
  LET row == [account EXCEPT !.id = seq]
  IN [accounts |-> Append(tbl, row), next_id |-> seq + 1, account |-> row]

\* update(): full replace of the row with the entity's id; fails when no
\* row has that id
update(tbl, account) ==
  IF exists(tbl, account.id)
  THEN [ok |-> TRUE,
        accounts |-> [i \in 1..Len(tbl) |->
                        IF tbl[i].id = account.id THEN account ELSE tbl[i]]]
  ELSE [ok |-> FALSE, accounts |-> tbl]

RECURSIVE without(_, _)
\* the rows of tbl whose id is not account_id, order kept
without(tbl, account_id) ==
  IF tbl = <<>> THEN <<>>
  ELSE IF Head(tbl).id = account_id
       THEN without(Tail(tbl), account_id)
       ELSE <<Head(tbl)>> \o without(Tail(tbl), account_id)

\* delete(): removes the row with the entity's id and commits
delete(tbl, account) == without(tbl, account.id)

(* ------------------------- error translator ---------------------------- *)
not_found(message) ==
  [status |-> HTTP_404_NOT_FOUND,
   body |-> [status |-> HTTP_404_NOT_FOUND, error |-> "Not Found",
             message |-> message],
   location |-> None]

request_validation_error(message) ==
  [status |-> HTTP_400_BAD_REQUEST,
   body |-> [status |-> HTTP_400_BAD_REQUEST, error |-> "Bad Request",
             message |-> message],
   location |-> None]

mediatype_not_supported(message) ==
  [status |-> HTTP_415_UNSUPPORTED_MEDIA_TYPE,
   body |-> [status |-> HTTP_415_UNSUPPORTED_MEDIA_TYPE,
             error |-> "Unsupported media type", message |-> message],
   location |-> None]

internal_server_error(message) ==
  [status |-> HTTP_500_INTERNAL_SERVER_ERROR,
   body |-> [status |-> HTTP_500_INTERNAL_SERVER_ERROR,
             error |-> "Internal Server Error", message |-> message],
   location |-> None]

\* url_for("read_account", account_id=...)
url_for(account_id) == <<"accounts", account_id>>

(* ------------------------------ handlers ------------------------------- *)
\* what a handler leaves behind: the table, the key sequence, the response
Outcome(tbl, seq, resp) == [accounts |-> tbl, next_id |-> seq, response |-> resp]

check_content_type_allow_missing(content_type, media_type) ==
  content_type = None \/ content_type = media_type

\* check_content_type(media_type): TRUE when the handler goes on, FALSE
\* when it aborts with 415
check_content_type(content_type, media_type) ==
  content_type # None /\ content_type = media_type

create_accounts_no_create(tbl, seq, now, content_type, data) ==
  IF ~check_content_type(content_type, "application/json")
  THEN Outcome(tbl, seq, mediatype_not_supported("Content-Type must be application/json"))
  ELSE LET d == deserialize(Account, data, now) IN
    IF ~d.ok
    THEN Outcome(tbl, seq, request_validation_error("Invalid Account: missing " \o d.missing))
    ELSE Outcome(tbl, seq,
                 [status |-> HTTP_201_CREATED, body |-> serialize(d.account),
                  location |-> url_for(d.account.id)])

create_accounts_create_first(tbl, seq, now, content_type, data) ==
  IF ~check_content_type(content_type, "application/json")
  THEN Outcome(tbl, seq, mediatype_not_supported("Content-Type must be application/json"))
  ELSE LET d == deserialize(Account, data, now)
           c == create(tbl, seq, d.account)
       IN IF ~d.ok
          THEN Outcome(c.accounts, c.next_id,
                       request_validation_error("Invalid Account: missing " \o d.missing))
          ELSE Outcome(c.accounts, c.next_id,
                       [status |-> HTTP_201_CREATED, body |-> serialize(c.account),
                        location |-> url_for(c.account.id)])

create_accounts_keep_client_id(tbl, seq, now, content_type, data) ==
  IF ~check_content_type(content_type, "application/json")
  THEN Outcome(tbl, seq, mediatype_not_supported("Content-Type must be application/json"))
  ELSE LET d == deserialize(Account, data, now) IN
    IF ~d.ok
    THEN Outcome(tbl, seq, request_validation_error("Invalid Account: missing " \o d.missing))
    ELSE LET c == create(tbl, seq, d.account)
             row == IF d.account.id = NoId THEN c.account ELSE d.account
         IN Outcome(Append(tbl, row), c.next_id,
                    [status |-> HTTP_201_CREATED, body |-> serialize(row),
                     location |-> url_for(row.id)])

\* POST /accounts
create_accounts(tbl, seq, now, content_type, data) ==
  IF ~check_content_type(content_type, "application/json")
  THEN Outcome(tbl, seq, mediatype_not_supported("Content-Type must be application/json"))
  ELSE LET d == deserialize(Account, data, now) IN
    IF ~d.ok
    THEN Outcome(tbl, seq, request_validation_error("Invalid Account: missing " \o d.missing))
    ELSE LET c == create(tbl, seq, d.account)
         IN Outcome(c.accounts, c.next_id,
                    [status |-> HTTP_201_CREATED, body |-> serialize(c.account),
                     location |-> url_for(c.account.id)])

\* GET /accounts (the key sequence is not touched: callers keep theirs)
list_accounts(tbl) ==
  Outcome(tbl, 0,
          [status |-> HTTP_200_OK,
           body |-> [i \in 1..Len(all(tbl)) |-> serialize(all(tbl)[i])],
           location |-> None])

read_account_by_position(tbl, account_id) ==
  IF ~(account_id \in 1..Len(tbl))
  THEN Outcome(tbl, 0, not_found("Account " \o ToString(account_id) \o " does not exist."))
  ELSE Outcome(tbl, 0, [status |-> HTTP_200_OK, body |-> serialize(tbl[account_id]),
                        location |-> None])

\* GET /accounts/<int:account_id>
read_account(tbl, account_id) ==
  IF ~exists(tbl, account_id)
  THEN Outcome(tbl, 0, not_found("Account " \o ToString(account_id) \o " does not exist."))
  ELSE Outcome(tbl, 0, [status |-> HTTP_200_OK,
                        body |-> serialize(find(tbl, account_id)),
                        location |-> None])

\* the tail of update_account once the body has been applied with success
update_and_respond(tbl, account) ==
  LET u == update(tbl, account) IN
    IF ~u.ok
    THEN Outcome(tbl, 0, internal_server_error("update of a missing row"))
    ELSE Outcome(u.accounts, 0, [status |-> HTTP_200_OK, body |-> serialize(account),
                                 location |-> None])

update_account_validate_first(tbl, now, account_id, data) ==
  LET d == deserialize(IF exists(tbl, account_id) THEN find(tbl, account_id) ELSE Account,
                       data, now) IN
    IF ~d.ok
    THEN Outcome(tbl, 0, request_validation_error("Invalid Account: missing " \o d.missing))
    ELSE IF ~exists(tbl, account_id)
    THEN Outcome(tbl, 0, not_found("Account " \o ToString(account_id) \o " does not exist."))
    ELSE IF ~(d.account.id = account_id)
    THEN Outcome(tbl, 0, request_validation_error("ID mismatch"))
    ELSE update_and_respond(tbl, d.account)

update_account_no_id_check(tbl, now, account_id, data) ==
  IF ~exists(tbl, account_id)
  THEN Outcome(tbl, 0, not_found("Account " \o ToString(account_id) \o " does not exist."))
  ELSE LET d == deserialize(find(tbl, account_id), data, now) IN
    IF ~d.ok
    THEN Outcome(tbl, 0, request_validation_error("Invalid Account: missing " \o d.missing))
    ELSE update_and_respond(tbl, d.account)

update_account_no_update(tbl, now, account_id, data) ==
  IF ~exists(tbl, account_id)
  THEN Outcome(tbl, 0, not_found("Account " \o ToString(account_id) \o " does not exist."))
  ELSE LET d == deserialize(find(tbl, account_id), data, now) IN
    IF ~d.ok
    THEN Outcome(tbl, 0, request_validation_error("Invalid Account: missing " \o d.missing))
    ELSE IF ~(d.account.id = account_id)
    THEN Outcome(tbl, 0, request_validation_error("ID mismatch"))
    ELSE Outcome(tbl, 0, [status |-> HTTP_200_OK, body |-> serialize(d.account),
                          location |-> None])

update_account_update_before_check(tbl, now, account_id, data) ==
  IF ~exists(tbl, account_id)
  THEN Outcome(tbl, 0, not_found("Account " \o ToString(account_id) \o " does not exist."))
  ELSE LET d == deserialize(find(tbl, account_id), data, now)
           \* the found row takes the entity's values, whatever id it now has
           written == [i \in 1..Len(tbl) |->
                         IF tbl[i].id = account_id THEN d.account ELSE tbl[i]]
       IN
    IF ~d.ok
    THEN Outcome(written, 0, request_validation_error("Invalid Account: missing " \o d.missing))
    ELSE IF ~(d.account.id = account_id)
    THEN Outcome(written, 0, request_validation_error("ID mismatch"))
    ELSE Outcome(written, 0, [status |-> HTTP_200_OK, body |-> serialize(d.account),
                              location |-> None])

\* PUT /accounts/<int:account_id>: find, 404 when absent, apply the body
\* onto the found entity, 400 on a failed deserialize or an id that now
\* differs from the path id, else update() and 200
update_account(tbl, now, account_id, data) ==
  IF ~exists(tbl, account_id)
  THEN Outcome(tbl, 0, not_found("Account " \o ToString(account_id) \o " does not exist."))
  ELSE LET d == deserialize(find(tbl, account_id), data, now) IN
    IF ~d.ok
    THEN Outcome(tbl, 0, request_validation_error("Invalid Account: missing " \o d.missing))
    ELSE IF ~(d.account.id = account_id)
    THEN Outcome(tbl, 0, request_validation_error("ID mismatch"))
    ELSE update_and_respond(tbl, d.account)

delete_account_404_when_absent(tbl, account_id) ==
  IF exists(tbl, account_id)
  THEN Outcome(delete(tbl, find(tbl, account_id)), 0,
               [status |-> HTTP_204_NO_CONTENT, body |-> "", location |-> None])
  ELSE Outcome(tbl, 0, not_found("Account " \o ToString(account_id) \o " does not exist."))

\* DELETE /accounts/<int:account_id>
delete_account(tbl, account_id) ==
  Outcome(IF exists(tbl, account_id) THEN delete(tbl, find(tbl, account_id)) ELSE tbl,
          0,
          [status |-> HTTP_204_NO_CONTENT, body |-> "", location |-> None])

(* --------------------------- the state machine ------------------------- *)
NoRequest == [method |-> None, rule |-> None, account_id |-> NoId,
              content_type |-> None, json |-> <<>>]
NoResponse == [status |-> 0, body |-> "", location |-> None]

Init ==
  /\ accounts = <<>>
  /\ next_id = 1
  /\ today = D1
  /\ request = NoRequest
  /\ response = NoResponse
  /\ n_created = 0
  /\ n_deleted = 0

\* the calendar moves on between requests
Tick ==
  /\ today = D1
  /\ today' = D2
  /\ UNCHANGED <<accounts, next_id, request, response, n_created, n_deleted>>

PostAccounts ==
  \E ct \in ContentTypes, data \in Bodies :
    LET r == create_accounts(accounts, next_id, today, ct, data) IN
      /\ r.next_id <= MaxId + 1
      /\ request' = [method |-> "POST", rule |-> "/accounts", account_id |-> NoId,
                     content_type |-> ct, json |-> data]
      /\ accounts' = r.accounts
      /\ next_id' = r.next_id
      /\ response' = r.response
      /\ n_created' = IF r.response.status = HTTP_201_CREATED
                      THEN n_created + 1 ELSE n_created
      /\ UNCHANGED <<today, n_deleted>>

GetAccounts ==
  LET r == list_accounts(accounts) IN
    /\ request' = [method |-> "GET", rule |-> "/accounts", account_id |-> NoId,
                   content_type |-> "application/json", json |-> <<>>]
    /\ accounts' = r.accounts
    /\ response' = r.response
    /\ UNCHANGED <<next_id, today, n_created, n_deleted>>

GetAccount ==
  \E id \in PathIds :
    LET r == read_account(accounts, id) IN
      /\ request' = [method |-> "GET", rule |-> "/accounts/<int:account_id>",
                     account_id |-> id, content_type |-> "application/json",
                     json |-> <<>>]
      /\ accounts' = r.accounts
      /\ response' = r.response
      /\ UNCHANGED <<next_id, today, n_created, n_deleted>>

PutAccount ==
  \E id \in PathIds, data \in Bodies :
    LET r == update_account(accounts, today, id, data) IN
      /\ request' = [method |-> "PUT", rule |-> "/accounts/<int:account_id>",
                     account_id |-> id, content_type |-> "application/json",
                     json |-> data]
      /\ accounts' = r.accounts
      /\ response' = r.response
      /\ UNCHANGED <<next_id, today, n_created, n_deleted>>

DeleteAccount ==
  \E id \in PathIds :
    LET r == delete_account(accounts, id) IN
      /\ request' = [method |-> "DELETE", rule |-> "/accounts/<int:account_id>",
                     account_id |-> id, content_type |-> None, json |-> <<>>]
      /\ accounts' = r.accounts
      /\ response' = r.response
      /\ n_deleted' = n_deleted + (Len(accounts) - Len(r.accounts))
      /\ UNCHANGED <<next_id, today, n_created>>

Next == Tick \/ PostAccounts \/ GetAccounts \/ GetAccount \/ PutAccount \/ DeleteAccount

Spec == Init /\ [][Next]_vars

(* ------------------------- vocabulary of the claims -------------------- *)
SingleRule == "/accounts/<int:account_id>"
ListRule == "/accounts"

\* a table holds a row with this id
HasId(tbl, id) == \E i \in 1..Len(tbl) : tbl[i].id = id

\* body is the wire representation of row: every field, the date as ISO text
Represents(body, row) ==
  /\ DOMAIN body = {"id", "name", "email", "address", "phone_number", "date_joined"}
  /\ body.id = row.id
  /\ body.name = row.name
  /\ body.email = row.email
  /\ body.address = row.address
  /\ body.phone_number = row.phone_number
  /\ body.date_joined = <<row.date_joined.year, row.date_joined.month, row.date_joined.day>>

\* the JSON object carries every required key
Valid(json) == RequiredKeys \subseteq DOMAIN json

\* the step handles a request (the calendar does not move in it)
Handles(method, rule) ==
  /\ today' = today
  /\ request'.method = method
  /\ request'.rule = rule

(* C1: GET /accounts/{id} answers 200 with the stored account's            *)
(* representation exactly when a row with that id is stored and 404        *)
(* otherwise; a GET of the id a POST has just returned answers 200 with    *)
(* the POST's response body.                                               *)
C1_ReadState ==
  (request.method = "GET" /\ request.rule = SingleRule) =>
     IF HasId(accounts, request.account_id)
     THEN /\ response.status = 200
          /\ \E i \in 1..Len(accounts) :
               /\ accounts[i].id = request.account_id
               /\ Represents(response.body, accounts[i])
     ELSE response.status = 404

C1_ReadAfterCreate ==
  (/\ request.method = "POST"
   /\ response.status = 201
   /\ Handles("GET", SingleRule)
   /\ request'.account_id = response.body.id)
  => (response'.status = 200 /\ response'.body = response.body)

C1_Read == [](C1_ReadState) /\ [][C1_ReadAfterCreate]_vars

C1_Witness ==
  /\ request.method = "GET"
  /\ request.rule = SingleRule
  /\ response.status = 200
  /\ n_deleted > 0

(* C2: GET /accounts answers 200 with one entry per stored account, in     *)
(* particular N entries after N successful POSTs and no delete.            *)
C2_List ==
  (request.method = "GET" /\ request.rule = ListRule) =>
     /\ response.status = 200
     /\ DOMAIN response.body = 1..Len(accounts)
     /\ \A i \in 1..Len(accounts) : Represents(response.body[i], accounts[i])
     /\ (n_deleted = 0 => Len(response.body) = n_created)

C2_Witness ==
  /\ request.method = "GET"
  /\ request.rule = ListRule
  /\ n_deleted = 0
  /\ n_created >= 2
  /\ Len(response.body) = n_created

(* C3: DELETE /accounts/{id} always answers 204 with an empty body; after  *)
(* it no row has the id, the other rows are as before, and the same        *)
(* DELETE again answers 204 and changes nothing.                           *)
C3_DeleteStep ==
  /\ Handles("DELETE", SingleRule) =>
       /\ response'.status = 204
       /\ response'.body = ""
       /\ ~HasId(accounts', request'.account_id)
       /\ accounts' = SelectSeq(accounts, LAMBDA r : r.id # request'.account_id)
  /\ (/\ Handles("DELETE", SingleRule)
      /\ request.method = "DELETE"
      /\ request.account_id = request'.account_id) =>
       /\ response'.status = 204
       /\ accounts' = accounts

C3_Delete == [][C3_DeleteStep]_vars

C3_Witness ==
  /\ request.method = "DELETE"
  /\ response.status = 204
  /\ n_deleted = 1
  /\ n_created = 2
  /\ Len(accounts) = 1

(* C4: PUT /accounts/{id} looks the account up before it looks at the body: *)
(* with no row of the path id the answer is 404 for every body (an         *)
(* embedded id that differs, a required field missing), and the id         *)
(* mismatch 400 only ever answers a path id that is stored.                *)
C4_UpdateStep ==
  Handles("PUT", SingleRule) =>
    /\ ~HasId(accounts, request'.account_id) => response'.status = 404
    /\ (response'.status = 400 /\ response'.body.message = "ID mismatch")
         => HasId(accounts, request'.account_id)

C4_UpdateNotFoundFirst == [][C4_UpdateStep]_vars

C4_Witness ==
  /\ request.method = "PUT"
  /\ response.status = 404
  /\ ~Valid(request.json)
  /\ accounts # <<>>

(* C5: PUT /accounts/{id} of a stored account with a valid body whose      *)
(* embedded id differs from the path id answers 400 "ID mismatch", and     *)
(* nothing is stored.                                                      *)
C5_UpdateStep ==
  (/\ Handles("PUT", SingleRule)
   /\ HasId(accounts, request'.account_id)
   /\ Valid(request'.json)
   /\ "id" \in DOMAIN request'.json
   /\ request'.json["id"] # request'.account_id)
  => /\ response'.status = 400
     /\ response'.body.message = "ID mismatch"
     /\ accounts' = accounts

C5_UpdateIdMismatch == [][C5_UpdateStep]_vars

C5_Witness ==
  /\ request.method = "PUT"
  /\ HasId(accounts, request.account_id)
  /\ "id" \in DOMAIN request.json
  /\ request.json["id"] # request.account_id
  /\ HasId(accounts, request.json["id"])
  /\ response.status = 400

(* C6: a PUT of a stored account with a valid body whose embedded id is    *)
(* absent or equal to the path id answers 200; the stored account has      *)
(* the submitted name, email, address, phone_number and date_joined (the   *)
(* current date when date_joined is left out), keeps its id, is what the   *)
(* response body represents, and every other row is untouched.             *)
C6_UpdateStep ==
  (/\ Handles("PUT", SingleRule)
   /\ HasId(accounts, request'.account_id)
   /\ Valid(request'.json)
   /\ ("id" \in DOMAIN request'.json => request'.json["id"] = request'.account_id))
  => /\ response'.status = 200
     /\ Len(accounts') = Len(accounts)
     /\ \A i \in 1..Len(accounts) :
          IF accounts[i].id = request'.account_id
          THEN /\ accounts'[i].id = request'.account_id
               /\ accounts'[i].name = request'.json["name"]
               /\ accounts'[i].email = request'.json["email"]
               /\ accounts'[i].address = request'.json["address"]
               /\ accounts'[i].phone_number = request'.json["phone_number"]
               /\ IF "date_joined" \in DOMAIN request'.json
                  THEN <<accounts'[i].date_joined.year, accounts'[i].date_joined.month,
                         accounts'[i].date_joined.day>> = request'.json["date_joined"]
                  ELSE accounts'[i].date_joined = today
               /\ Represents(response'.body, accounts'[i])
          ELSE accounts'[i] = accounts[i]

C6_UpdateFullReplace == [][C6_UpdateStep]_vars

C6_Witness ==
  /\ request.method = "PUT"
  /\ response.status = 200
  /\ Len(accounts) = 2
  /\ accounts[1].name # accounts[2].name
  /\ \E i \in 1..2 : accounts[i].id = request.account_id
                     /\ accounts[i].email = request.json["email"]

(* C7: POST /accounts without Content-Type application/json answers 415    *)
(* whatever the body, and creates nothing.                                 *)
C7_CreateStep ==
  (Handles("POST", ListRule) /\ request'.content_type # "application/json")
  => /\ response'.status = 415
     /\ accounts' = accounts
     /\ next_id' = next_id

C7_CreateMediaType == [][C7_CreateStep]_vars

C7_Witness ==
  /\ request.method = "POST"
  /\ request.content_type = None
  /\ ~Valid(request.json)
  /\ response.status = 415

(* C8: POST /accounts with Content-Type application/json and a body that   *)
(* lacks a required field answers 400 and creates nothing.                 *)
C8_CreateStep ==
  (/\ Handles("POST", ListRule)
   /\ request'.content_type = "application/json"
   /\ ~Valid(request'.json))
  => /\ response'.status = 400
     /\ accounts' = accounts
     /\ next_id' = next_id

C8_CreateMissingField == [][C8_CreateStep]_vars

C8_Witness ==
  /\ request.method = "POST"
  /\ request.content_type = "application/json"
  /\ "phone_number" \notin DOMAIN request.json
  /\ response.status = 400

(* C9: a request answered with a 4xx status leaves the table and the key   *)
(* sequence as they were.                                                  *)
C9_ErrorStep ==
  (today' = today /\ response'.status \in 400..499)
  => /\ accounts' = accounts
     /\ next_id' = next_id

C9_ErrorsLeaveStore == [][C9_ErrorStep]_vars

C9_Witness ==
  /\ request.method = "PUT"
  /\ response.status = 400
  /\ "name" \in DOMAIN request.json
  /\ \E i \in 1..Len(accounts) :
       /\ accounts[i].id = request.account_id
       /\ accounts[i].name # request.json["name"]

(* C10: stored ids are pairwise distinct; a successful POST appends a row  *)
(* whose id no stored row holds; a PUT leaves every row's id where it is;  *)
(* a DELETE only removes rows; a GET changes nothing.                      *)
C10_Distinct ==
  \A i, j \in 1..Len(accounts) : i # j => accounts[i].id # accounts[j].id

C10_IdStep ==
  /\ (Handles("POST", ListRule) /\ response'.status = 201) =>
       /\ ~HasId(accounts, response'.body.id)
       /\ Len(accounts') = Len(accounts) + 1
       /\ \A i \in 1..Len(accounts) : accounts'[i] = accounts[i]
       /\ accounts'[Len(accounts')].id = response'.body.id
  /\ Handles("PUT", SingleRule) =>
       /\ Len(accounts') = Len(accounts)
       /\ \A i \in 1..Len(accounts) : accounts'[i].id = accounts[i].id
  /\ Handles("DELETE", SingleRule) =>
       accounts' = SelectSeq(accounts, LAMBDA r : r.id # request'.account_id)
  /\ (today' = today /\ request'.method = "GET") => accounts' = accounts

C10_IdsUniqueImmutable == [](C10_Distinct) /\ [][C10_IdStep]_vars

C10_Witness ==
  /\ request.method = "POST"
  /\ response.status = 201
  /\ "id" \in DOMAIN request.json
  /\ HasId(accounts, request.json["id"])
  /\ response.body.id # request.json["id"]

====
